---- MODULE Spec2Model ----
(***************************************************************************)
(* Model of pysph.solver.application.Application: the rank-aware          *)
(* construction of the particle arrays (_create_particles), the initial   *)
(* Zoltan load balance with its barrier, the binding of the options onto  *)
(* the solver and the attachment of the solver interfaces (setup), and    *)
(* the entry into the step loop (run).                                    *)
(*                                                                         *)
(* One process per MPI rank.  Python strings are sequences of one         *)
(* character strings; a string option that is None (or empty, the code    *)
(* only tests its truth) is the empty sequence.  Times (t, dt) are        *)
(* naturals in an arbitrary unit.                                         *)
(***************************************************************************)
EXTENDS Integers, Sequences, FiniteSets, TLC

\* ------------------------------------------------------------- bounds
MaxProcs == 3
MaxDt == 2
MaxRescale == 2
MaxT == 2
MaxCount == 1
MaxAuthLen == 1
MaxHostLen == 1
MaxPortLen == 2

\* ------------------------------------------------------------- values
None == "None"
\* the communicator is never kept
CommLeftNone == "None"

COMM_WORLD == "COMM_WORLD"

NoManager == [kind |-> "None"]
UnsetManager == [kind |-> "unset"]

\* ------------------------------------------------------------- strings
Digits == {"0", "1", "2", "3", "4", "5", "6", "7", "8", "9"}

DigitVal(c) ==
    CASE c = "0" -> 0 [] c = "1" -> 1 [] c = "2" -> 2 [] c = "3" -> 3
      [] c = "4" -> 4 [] c = "5" -> 5 [] c = "6" -> 6 [] c = "7" -> 7
      [] c = "8" -> 8 [] c = "9" -> 9

DigitChar(d) ==
    CASE d = 0 -> "0" [] d = 1 -> "1" [] d = 2 -> "2" [] d = 3 -> "3"
      [] d = 4 -> "4" [] d = 5 -> "5" [] d = 6 -> "6" [] d = 7 -> "7"
      [] d = 8 -> "8" [] d = 9 -> "9"

\* str(n) for n >= 0: the decimal digits, most significant first
RECURSIVE str(_)
str(n) == IF n < 10 THEN <<DigitChar(n)>> ELSE str(n \div 10) \o <<DigitChar(n % 10)>>

\* s.find(c): the 0-based index of the first c in s, or -1
find(s, c) ==
    IF \E i \in 1..Len(s) : s[i] = c
    THEN (CHOOSE i \in 1..Len(s) : s[i] = c /\ \A j \in 1..(i - 1) : s[j] # c) - 1
    ELSE -1

\* s[:idx] for idx >= 0
SliceTo(s, idx) == SubSeq(s, 1, idx)

\* s[idx+1:] for idx >= -1
SliceAfter(s, idx) == SubSeq(s, idx + 2, Len(s))

\* the value of a non-empty run of decimal digits
RECURSIVE DigitsValue(_)
DigitsValue(s) ==
    IF Len(s) = 0 THEN 0
    ELSE 10 * DigitsValue(SubSeq(s, 1, Len(s) - 1)) + DigitVal(s[Len(s)])

AllDigits(s) == Len(s) > 0 /\ \A i \in 1..Len(s) : s[i] \in Digits

\* int(s): accepts decimal digits with an optional sign, raises ValueError otherwise
IntAccepts(s) ==
    \/ AllDigits(s)
    \/ Len(s) > 1 /\ s[1] \in {"+", "-"} /\ AllDigits(Tail(s))

int(s) ==
    IF AllDigits(s) THEN DigitsValue(s)
    ELSE IF s[1] = "-" THEN 0 - DigitsValue(Tail(s)) ELSE DigitsValue(Tail(s))


\* ------------------------------------------------------------- addresses
\* --xml-rpc [HOST:]PORT (setup): the address handed to XMLRPCInterface
ParseXmlRpc(addr) ==
    LET idx == find(addr, ":")
        host == IF idx = -1 THEN <<"0", ".", "0", ".", "0", ".", "0">> ELSE SliceTo(addr, idx)
        port == SliceAfter(addr, idx)
    IN  IF IntAccepts(port)
        THEN [error |-> "", kind |-> "rpc", host |-> host, port |-> int(port)]
        ELSE [error |-> "ValueError", kind |-> "rpc", host |-> host, port |-> 0]

\* the authkey of the address is ignored
AuthkeyAlwaysDefault(addr) == <<"p", "y", "s", "p", "h">>

\* authkey = "pysph" if idx == -1 else addr[:idx]
AuthkeyOf(addr) ==
    LET idx == find(addr, "@")
    IN  IF idx = -1 THEN <<"p", "y", "s", "p", "h">> ELSE SliceTo(addr, idx)

\* addr = addr[idx+1:] with idx = addr.find('@')
AfterAuthkey(addr) == SliceAfter(addr, find(addr, "@"))

\* host = "0.0.0.0" if idx == -1 else addr[:idx], on the text after the authkey
HostOf(rest) ==
    LET idx == find(rest, ":")
    IN  IF idx = -1 THEN <<"0", ".", "0", ".", "0", ".", "0">> ELSE SliceTo(rest, idx)

\* port = addr[idx+1:] with idx = addr.find(':')
PortTextOf(rest) == SliceAfter(rest, find(rest, ":"))

\* port[-1] == '+'
TryNextPort(port) == port[Len(port)] = "+"

\* --multiproc [[AUTHKEY@]HOST:]PORT[+] (setup): the arguments handed to
\* MultiprocessingInterface, or the exception the parsing raises
ParseMultiproc(addr) ==
    LET authkey == AuthkeyOf(addr)
        rest == AfterAuthkey(addr)
        host == HostOf(rest)
        port == PortTextOf(rest)
        failed(e) == [error |-> e, kind |-> "pool", authkey |-> authkey, host |-> host,
                      port |-> 0, try_next_port |-> FALSE]
    IN  IF Len(port) = 0 THEN failed("IndexError")
        ELSE LET try_next_port == TryNextPort(port)
                 digits == IF try_next_port THEN SubSeq(port, 1, Len(port) - 1) ELSE port
             IN  IF IntAccepts(digits)
                 THEN [error |-> "", kind |-> "pool", authkey |-> authkey, host |-> host,
                       port |-> int(digits), try_next_port |-> try_next_port]
                 ELSE failed("ValueError")

\* ------------------------------------------------------------- particle arrays
Fluid == [name |-> "fluid", is_static |-> FALSE]
Solid == [name |-> "solid", is_static |-> TRUE]

\* what particle_factory() returns: a list of arrays with distinct names
FactoryLists == {<<>>, <<Fluid>>, <<Solid>>, <<Fluid, Solid>>, <<Solid, Fluid>>}

\* the arrays with their elements, as the factory builds them and a dump stores them
Full(arrays) == [i \in 1..Len(arrays) |->
    [name |-> arrays[i].name, is_static |-> arrays[i].is_static, empty |-> FALSE]]

\* particle_factory(empty=True): the same arrays without elements
Empty(arrays) == [i \in 1..Len(arrays) |->
    [name |-> arrays[i].name, is_static |-> arrays[i].is_static, empty |-> TRUE]]

\* the orders in which a dict holding the arrays of a list can be iterated
Orders(arrays) ==
    {s \in [1..Len(arrays) -> {arrays[i] : i \in 1..Len(arrays)}] :
        \A i, j \in 1..Len(arrays) : i # j => s[i] # s[j]}

\* an array without elements does not count as static
IsStaticAndFilled(pa) == pa.is_static /\ ~pa.empty

\* what data['arrays'] of a dump of the given arrays can iterate as: the arrays
\* as they were saved, names and is_static flags kept, in any order
LoadedArrays(arrays) == Orders(Full(arrays))

IsStatic(pa) == pa.is_static
IsDynamic(pa) == ~pa.is_static

\* a ZoltanParallelManagerGeometric over a list of arrays, as constructed
NewManager(arrays) ==
    [kind |-> "ZoltanParallelManagerGeometric", particles |-> arrays,
     initial_update |-> TRUE, updates |-> 0]


\* ------------------------------------------------------------- state
VARIABLES
    Has_MPI,            \* pysph.Has_MPI
    Has_Zoltan,         \* pysph.Has_Zoltan
    world,              \* the number of processes of the run (COMM_WORLD's size)
    options,            \* the parsed command line, the same on every process
    factory,            \* the list of arrays particle_factory builds
    restart_data,       \* what load(options.restart_file) returns
    pc,                 \* per process: where it is in Application's life
    error,              \* per process: the exception that ended it, or ""
    comm,               \* Application.comm
    num_procs,          \* Application.num_procs
    rank,               \* Application.rank
    particles,          \* Application.particles
    particles_static,   \* Application.particles_static
    particles_dynamic,  \* Application.particles_dynamic
    pm,                 \* Application.pm
    pm_static,          \* Application.pm_static
    solver,             \* the solver handed to setup
    nnps,               \* Application.nnps
    interfaces,         \* the interfaces added to Application.command_manager
    calls               \* per process: the calls made to the collaborators, in order

vars == <<Has_MPI, Has_Zoltan, world, options, factory, restart_data, pc, error,
          comm, num_procs, rank, particles, particles_static, particles_dynamic,
          pm, pm_static, solver, nnps, interfaces, calls>>

env == <<Has_MPI, Has_Zoltan, world, options, factory, restart_data>>

\* the processes of the run, named by the rank the MPI runtime gives them
Procs == 0..(world - 1)

\* ------------------------------------------------------------- the code's tests
\* mpi4py.MPI is imported as mpi only under this condition
MpiImported == Has_MPI /\ Has_Zoltan

\* every rank takes itself for the master
IsMasterOnEveryRank(r) == TRUE

\* if rank == 0: only master creates the particles
IsMaster(r) == r = 0

\* a lone process counts as a parallel run
InParallelFromOne(n) == n >= 1

\* if num_procs > 1
InParallel(n) == n > 1

\* the factor is applied a second time
RescaleDtTwice(dt, r) == dt * r * r

\* dt *= options.rescale_dt
RescaleDt(dt, r) == dt * r

\* the rank is left out of the name
OutputNameWithoutRank(base, r, n) == base

\* fname = options.output; if Has_MPI: if num_procs > 1: fname += '_' + str(rank)
OutputName(base, r, n) ==
    IF Has_MPI
    THEN IF n > 1 THEN base \o <<"_">> \o str(r) ELSE base
    ELSE base

\* every rank adds the interfaces
AddsInterfacesOnEveryRank(r) == TRUE

\* if self.rank == 0: the interfaces are added on the master alone
AddsInterfaces(r) == r = 0

\* the collective operations among the calls of a process
IsCollective(c) == c \in {"pm.update", "pm_static.update", "comm.barrier"}
Collectives(p) == SelectSeq(calls[p], IsCollective)

\* a collective call returns once every process of the communicator has made
\* the same call as its collective of the same position
AllReached(p) ==
    LET k == Len(Collectives(p))
    IN  \A q \in Procs :
            /\ Len(Collectives(q)) >= k
            /\ Collectives(q)[k] = Collectives(p)[k]

\* pm.update() and pm_static.update() return
UpdateReturns(p) == AllReached(p)

\* the barrier lets a process through without waiting for the others
BarrierReturnsAtOnce(p) == TRUE

\* comm.barrier() returns
BarrierReturns(p) == AllReached(p)


\* ------------------------------------------------------------- actions
Called(p, cs) == calls' = [calls EXCEPT ![p] = @ \o cs]

Raise(p, e) ==
    /\ pc' = [pc EXCEPT ![p] = "failed"]
    /\ error' = [error EXCEPT ![p] = e]

\* Application.__init__: the MPI related variables.  With Has_MPI and without
\* Has_Zoltan the name mpi is not bound and mpi.COMM_WORLD raises NameError.
Construct(p) ==
    /\ pc[p] = "start"
    /\ IF Has_MPI
       THEN IF MpiImported
            THEN /\ comm' = [comm EXCEPT ![p] = COMM_WORLD]
                 /\ num_procs' = [num_procs EXCEPT ![p] = world]
                 /\ rank' = [rank EXCEPT ![p] = p]
                 /\ pc' = [pc EXCEPT ![p] = "constructed"]
                 /\ UNCHANGED error
            ELSE /\ Raise(p, "NameError")
                 /\ UNCHANGED <<comm, num_procs, rank>>
       ELSE /\ pc' = [pc EXCEPT ![p] = "constructed"]
            /\ UNCHANGED <<comm, num_procs, rank, error>>
    /\ UNCHANGED <<env, particles, particles_static, particles_dynamic, pm, pm_static,
                   solver, nnps, interfaces, calls>>

\* Application.setup up to its call of _create_particles, and _create_particles
\* up to the split into static and dynamic arrays
CreateParticles(p) ==
    /\ pc[p] = "constructed"
    /\ LET created ==
               IF IsMaster(rank[p])
               THEN IF options.restart_file # None
                    THEN restart_data.arrays
                    ELSE Full(factory)
               ELSE Empty(factory)
       IN  /\ particles' = [particles EXCEPT ![p] = created]
           /\ particles_static' = [particles_static EXCEPT ![p] = SelectSeq(created, IsStatic)]
           /\ particles_dynamic' = [particles_dynamic EXCEPT ![p] = SelectSeq(created, IsDynamic)]
    /\ IF IsMaster(rank[p])
       THEN IF options.restart_file # None
            THEN /\ solver' = [solver EXCEPT ![p].t = restart_data.solver_data.t,
                                             ![p].dt = RescaleDt(restart_data.solver_data.dt,
                                                                 options.rescale_dt),
                                             ![p].count = restart_data.solver_data.count]
                 /\ Called(p, <<"load">>)
            ELSE /\ Called(p, <<"particle_factory()">>)
                 /\ UNCHANGED solver
       ELSE /\ Called(p, <<"particle_factory(empty=True)">>)
            /\ UNCHANGED solver
    /\ pc' = [pc EXCEPT ![p] = "created"]
    /\ UNCHANGED <<env, error, comm, num_procs, rank, pm, pm_static, nnps, interfaces>>

\* _create_particles from "Instantiate the Parallel Manager": in a serial run to
\* its end; in a parallel run the test of Zoltan, the manager of the dynamic
\* arrays, its Zoltan parameters and the call of its update
InitPartition(p) ==
    /\ pc[p] = "created"
    /\ pm_static' = [pm_static EXCEPT ![p] = NoManager]
    /\ IF InParallel(num_procs[p])
       THEN /\ UNCHANGED solver
            /\ IF options.with_zoltan
               THEN IF ~(Has_Zoltan /\ Has_MPI)
                    THEN /\ Raise(p, "RuntimeError")
                         /\ pm' = [pm EXCEPT ![p] = NoManager]
                         /\ UNCHANGED calls
                    ELSE /\ pm' = [pm EXCEPT ![p] = NewManager(particles_dynamic[p])]
                         /\ Called(p, <<"pm.new", "pm.Zoltan_Set_Param",
                                        "pm.Zoltan_Set_Param", "pm.update">>)
                         /\ pc' = [pc EXCEPT ![p] = "dynamic_update"]
                         /\ UNCHANGED error
               ELSE /\ Raise(p, "ValueError")
                    /\ pm' = [pm EXCEPT ![p] = NoManager]
                    /\ UNCHANGED calls
       ELSE /\ pm' = [pm EXCEPT ![p] = NoManager]
            /\ solver' = [solver EXCEPT ![p].pm = NoManager, ![p].pm_static = NoManager]
            /\ pc' = [pc EXCEPT ![p] = "bootstrapped"]
            /\ UNCHANGED <<error, calls>>
    /\ UNCHANGED <<env, comm, num_procs, rank, particles, particles_static,
                   particles_dynamic, nnps, interfaces>>

\* pm.update() returns; pm.initial_update = False; then the manager of the
\* static arrays up to the call of its update, or without static arrays the
\* call of comm.barrier()
DynamicBalanced(p) ==
    /\ pc[p] = "dynamic_update"
    /\ UpdateReturns(p)
    /\ pm' = [pm EXCEPT ![p].updates = @ + 1, ![p].initial_update = FALSE]
    /\ IF Len(particles_static[p]) > 0
       THEN /\ pm_static' = [pm_static EXCEPT ![p] = NewManager(particles_static[p])]
            /\ Called(p, <<"pm_static.new", "pm_static.Zoltan_Set_Param",
                           "pm_static.Zoltan_Set_Param", "pm_static.update">>)
            /\ pc' = [pc EXCEPT ![p] = "static_update"]
       ELSE /\ Called(p, <<"comm.barrier">>)
            /\ pc' = [pc EXCEPT ![p] = "barrier"]
            /\ UNCHANGED pm_static
    /\ UNCHANGED <<env, error, comm, num_procs, rank, particles, particles_static,
                   particles_dynamic, solver, nnps, interfaces>>

\* pm_static.update() returns; pm.initial_update = False (of pm, as the code has
\* it); then the call of comm.barrier()
StaticBalanced(p) ==
    /\ pc[p] = "static_update"
    /\ UpdateReturns(p)
    /\ pm_static' = [pm_static EXCEPT ![p].updates = @ + 1]
    /\ pm' = [pm EXCEPT ![p].initial_update = FALSE]
    /\ Called(p, <<"comm.barrier">>)
    /\ pc' = [pc EXCEPT ![p] = "barrier"]
    /\ UNCHANGED <<env, error, comm, num_procs, rank, particles, particles_static,
                   particles_dynamic, solver, nnps, interfaces>>

\* comm.barrier() returns; the solver is given the two managers
PassBarrier(p) ==
    /\ pc[p] = "barrier"
    /\ BarrierReturns(p)
    /\ solver' = [solver EXCEPT ![p].pm = pm[p], ![p].pm_static = pm_static[p]]
    /\ pc' = [pc EXCEPT ![p] = "bootstrapped"]
    /\ UNCHANGED <<env, error, comm, num_procs, rank, particles, particles_static,
                   particles_dynamic, pm, pm_static, nnps, interfaces, calls>>


\* Application.setup after _create_particles, up to solver.setup: the options
\* are put on the solver and on the NNPS
BindRuntime(p) ==
    /\ pc[p] = "bootstrapped"
    /\ solver' = [solver EXCEPT
            ![p].dt = IF options.time_step # <<>> THEN options.time_step[1] ELSE @,
            ![p].tf = IF options.final_time # <<>> THEN options.final_time[1] ELSE @,
            ![p].rank = rank[p],
            ![p].pid = rank[p],
            ![p].comm = comm[p],
            ![p].in_parallel = IF InParallel(num_procs[p]) THEN TRUE ELSE @,
            ![p].fname = OutputName(options.output, rank[p], num_procs[p]),
            ![p].print_freq = options.freq,
            ![p].detailed_output = options.detailed_output,
            ![p].output_dir = options.output_dir,
            ![p].parallel_output_mode = options.parallel_output_mode]
    /\ nnps' = [nnps EXCEPT ![p] = [created |-> TRUE,
                                    in_parallel |-> IF InParallel(num_procs[p])
                                                    THEN TRUE ELSE @.in_parallel]]
    /\ Called(p, <<"solver.setup_solver", "solver.setup">>)
    /\ pc' = [pc EXCEPT ![p] = "bound"]
    /\ UNCHANGED <<env, error, comm, num_procs, rank, particles, particles_static,
                   particles_dynamic, pm, pm_static, interfaces>>

\* Application.setup from "add solver interfaces" to its end.  The logger
\* exists only when the log level is not 'none' (_process_command_line).
AttachInterfaces(p) ==
    /\ pc[p] = "bound"
    /\ solver' = [solver EXCEPT ![p].command_handler = "execute_commands"]
    /\ LET console == IF options.cmd_line THEN <<[kind |-> "console"]>> ELSE <<>>
           rpc == ParseXmlRpc(options.xml_rpc)
           pool == ParseMultiproc(options.multiproc)
           withRpc == IF options.xml_rpc # <<>> THEN console \o <<rpc>> ELSE console
           ready == pc' = [pc EXCEPT ![p] = "ready"] /\ UNCHANGED error
       IN  IF AddsInterfaces(rank[p])
           THEN IF options.xml_rpc # <<>> /\ rpc.error # ""
                THEN /\ interfaces' = [interfaces EXCEPT ![p] = console]
                     /\ Raise(p, rpc.error)
                ELSE IF options.multiproc # <<>>
                     THEN IF pool.error # ""
                          THEN /\ interfaces' = [interfaces EXCEPT ![p] = withRpc]
                               /\ Raise(p, pool.error)
                          ELSE /\ interfaces' = [interfaces EXCEPT ![p] = withRpc \o <<pool>>]
                               /\ IF options.loglevel = "none"
                                  THEN Raise(p, "AttributeError")
                                  ELSE ready
                     ELSE /\ interfaces' = [interfaces EXCEPT ![p] = withRpc]
                          /\ ready
           ELSE /\ interfaces' = [interfaces EXCEPT ![p] = <<>>]
                /\ ready
    /\ UNCHANGED <<env, comm, num_procs, rank, particles, particles_static,
                   particles_dynamic, pm, pm_static, nnps, calls>>

\* Application.run: the solver's step loop is entered
Run(p) ==
    /\ pc[p] = "ready"
    /\ pc' = [pc EXCEPT ![p] = "running"]
    /\ Called(p, <<"solver.solve">>)
    /\ UNCHANGED <<env, error, comm, num_procs, rank, particles, particles_static,
                   particles_dynamic, pm, pm_static, solver, nnps, interfaces>>

\* ------------------------------------------------------------- initial states
\* --multiproc's default, "pysph@0.0.0.0:8800+"
DefaultMultiproc ==
    <<"p", "y", "s", "p", "h", "@", "0", ".", "0", ".", "0", ".", "0", ":",
      "8", "8", "0", "0", "+">>

\* the defaults of _setup_optparse
DefaultOptions ==
    [loglevel |-> "warning", final_time |-> <<>>, time_step |-> <<>>,
     output |-> <<"s", "d">>, freq |-> 100, detailed_output |-> FALSE,
     output_dir |-> <<"s", "d", "_", "o", "u", "t", "p", "u", "t">>,
     restart_file |-> None, rescale_dt |-> 1, with_zoltan |-> TRUE,
     parallel_output_mode |-> "collected", cmd_line |-> FALSE, xml_rpc |-> <<>>,
     multiproc |-> DefaultMultiproc]

\* a solver as it is handed to setup: nothing of the application set on it yet
NewSolver(in_parallel) ==
    [t |-> 0, dt |-> 0, count |-> 0, tf |-> 0, pm |-> UnsetManager,
     pm_static |-> UnsetManager, in_parallel |-> in_parallel, fname |-> <<>>,
     rank |-> -1, pid |-> -1, comm |-> None, print_freq |-> 0,
     detailed_output |-> FALSE, output_dir |-> <<>>, parallel_output_mode |-> "",
     command_handler |-> None]

NoRestartData == [arrays |-> <<>>, solver_data |-> [t |-> 0, dt |-> 0, count |-> 0]]

\* the processes before Application is constructed, in a run of n processes
\* with the given runtime, command line, factory, dump and solver
InitWith(mpi, zoltan, n, opts, arrays, data, in_parallel) ==
    /\ Has_MPI = mpi
    /\ Has_Zoltan = zoltan
    /\ world = n
    /\ options = opts
    /\ factory = arrays
    /\ restart_data = data
    /\ pc = [p \in 0..(n - 1) |-> "start"]
    /\ error = [p \in 0..(n - 1) |-> ""]
    /\ comm = [p \in 0..(n - 1) |-> None]
    /\ num_procs = [p \in 0..(n - 1) |-> 1]
    /\ rank = [p \in 0..(n - 1) |-> 0]
    /\ particles = [p \in 0..(n - 1) |-> <<>>]
    /\ particles_static = [p \in 0..(n - 1) |-> <<>>]
    /\ particles_dynamic = [p \in 0..(n - 1) |-> <<>>]
    /\ pm = [p \in 0..(n - 1) |-> NoManager]
    /\ pm_static = [p \in 0..(n - 1) |-> NoManager]
    /\ solver = [p \in 0..(n - 1) |-> NewSolver(in_parallel)]
    /\ nnps = [p \in 0..(n - 1) |-> [created |-> FALSE, in_parallel |-> FALSE]]
    /\ interfaces = [p \in 0..(n - 1) |-> <<>>]
    /\ calls = [p \in 0..(n - 1) |-> <<>>]

\* runs of every size and runtime, with and without Zoltan selected, from the
\* factory or from a dump of the factory's arrays in any order of its dict
Init ==
    \E mpi \in BOOLEAN, zoltan \in BOOLEAN, n \in 1..MaxProcs, with_zoltan \in BOOLEAN,
       restart_file \in {None, "restart.npz"}, arrays \in FactoryLists :
        \E order \in LoadedArrays(arrays) :
            /\ mpi \/ n = 1
            /\ restart_file = None => order = Full(arrays)
            /\ InitWith(mpi, zoltan, n,
                        [DefaultOptions EXCEPT !.with_zoltan = with_zoltan,
                                               !.restart_file = restart_file],
                        arrays,
                        IF restart_file = None THEN NoRestartData
                        ELSE [arrays |-> order,
                              solver_data |-> [t |-> 1, dt |-> 1, count |-> 1]],
                        FALSE)

\* restarts from a dump with every saved (t, dt, count) and rescale factor, with
\* and without a --timestep on the command line
InitRestart ==
    \E n \in 1..MaxProcs, t \in 1..MaxT, dt \in 1..MaxDt, count \in 0..MaxCount,
       r \in 0..MaxRescale, time_step \in {<<>>, <<MaxDt + 1>>} :
        InitWith(TRUE, TRUE, n,
                 [DefaultOptions EXCEPT !.restart_file = "restart.npz",
                                        !.rescale_dt = r,
                                        !.time_step = time_step],
                 <<Fluid, Solid>>,
                 [arrays |-> Full(<<Fluid, Solid>>),
                  solver_data |-> [t |-> t, dt |-> dt, count |-> count]],
                 FALSE)

\* runs with every choice of the three interfaces, of the log level and of the
\* solver's in_parallel flag before setup
InitBind ==
    \E mpi \in BOOLEAN, n \in 1..MaxProcs, cmd_line \in BOOLEAN,
       xml_rpc \in {<<>>, <<"h", ":", "8", "0">>, <<"8", "0">>, <<"h", ":">>},
       multiproc \in {<<>>, DefaultMultiproc}, loglevel \in {"warning", "none"},
       in_parallel \in BOOLEAN :
        /\ mpi \/ n = 1
        /\ InitWith(mpi, TRUE, n,
                    [DefaultOptions EXCEPT !.cmd_line = cmd_line, !.xml_rpc = xml_rpc,
                                           !.multiproc = multiproc,
                                           !.loglevel = loglevel],
                    <<Fluid, Solid>>, NoRestartData, in_parallel)

\* the addresses [authkey@][host:]port[+] within the bounds, as their parts: an
\* absent authkey or host is <<None>>, which no present one equals
AuthChars == {"k", ":", "+"}
HostChars == {"h", "+"}
PortChars == {"8", "0"}

SeqsUpTo(chars, lo, hi) == UNION {[1..k -> chars] : k \in lo..hi}

Secret == <<"s", "e", "c", "r", "e", "t">>
Host == <<"h", "o", "s", "t">>

AddressParts ==
    ([authkey : {<<None>>} \cup SeqsUpTo(AuthChars, 0, MaxAuthLen),
      host : {<<None>>} \cup SeqsUpTo(HostChars, 0, MaxHostLen),
      port : SeqsUpTo(PortChars, 1, MaxPortLen),
      search : BOOLEAN])
    \cup {[authkey |-> Secret, host |-> Host, port |-> <<"9", "0", "0", "0">>,
           search |-> TRUE],
          [authkey |-> <<None>>, host |-> <<None>>, port |-> <<"1", "2", "3", "4">>,
           search |-> FALSE]}

\* the address string of the parts
Address(parts) ==
    (IF parts.authkey = <<None>> THEN <<>> ELSE parts.authkey \o <<"@">>)
    \o (IF parts.host = <<None>> THEN <<>> ELSE parts.host \o <<":">>)
    \o parts.port
    \o (IF parts.search THEN <<"+">> ELSE <<>>)

\* serial runs with every such address as --multiproc
InitParse ==
    \E parts \in AddressParts :
        InitWith(FALSE, FALSE, 1, [DefaultOptions EXCEPT !.multiproc = Address(parts)],
                 <<Fluid>>, NoRestartData, FALSE)

Next ==
    \/ \E p \in Procs : Construct(p)
    \/ \E p \in Procs : CreateParticles(p)
    \/ \E p \in Procs : InitPartition(p)
    \/ \E p \in Procs : DynamicBalanced(p)
    \/ \E p \in Procs : StaticBalanced(p)
    \/ \E p \in Procs : PassBarrier(p)
    \/ \E p \in Procs : BindRuntime(p)
    \/ \E p \in Procs : AttachInterfaces(p)
    \/ \E p \in Procs : Run(p)

\* the steps of a run of one process: no collective call is made
NextSerial ==
    \/ \E p \in Procs : Construct(p)
    \/ \E p \in Procs : CreateParticles(p)
    \/ \E p \in Procs : InitPartition(p)
    \/ \E p \in Procs : BindRuntime(p)
    \/ \E p \in Procs : AttachInterfaces(p)
    \/ \E p \in Procs : Run(p)

Spec == Init /\ [][Next]_vars

\* the steps of the constructor and of _create_particles
Bootstrap ==
    \E p \in Procs :
        \/ Construct(p)
        \/ CreateParticles(p)
        \/ InitPartition(p)
        \/ DynamicBalanced(p)
        \/ StaticBalanced(p)
        \/ PassBarrier(p)

\* every process is a running program: while a step of bootstrap is possible,
\* one is taken
SpecFair == Init /\ [][Next]_vars /\ WF_vars(Bootstrap)

SpecRestart == InitRestart /\ [][Next]_vars

SpecBind == InitBind /\ [][Next]_vars

SpecParse == InitParse /\ [][NextSerial]_vars

\* ------------------------------------------------------------- properties
InCalls(p, c) == \E i \in 1..Len(calls[p]) : calls[p][i] = c

\* the process has built its arrays (lines 346-383 have run)
HasCreated(p) == Len(calls[p]) > 0

\* the process built its arrays as the data source
ActedAsSource(p) == InCalls(p, "load") \/ InCalls(p, "particle_factory()")

\* _create_particles has returned on the process
AfterBootstrap(p) ==
    \/ pc[p] \in {"bootstrapped", "bound", "ready", "running"}
    \/ pc[p] = "failed" /\ InCalls(p, "solver.setup")

IsPartitionCall(c) ==
    c \in {"pm.new", "pm.Zoltan_Set_Param", "pm.update", "pm_static.new",
           "pm_static.Zoltan_Set_Param", "pm_static.update", "comm.barrier"}

\* the initial balance of every partition group of the process has returned
Balanced(q) ==
    /\ pm[q].kind = "ZoltanParallelManagerGeometric"
    /\ pm[q].updates >= 1
    /\ Len(particles_static[q]) > 0 =>
            /\ pm_static[q].kind = "ZoltanParallelManagerGeometric"
            /\ pm_static[q].updates >= 1

\* the (name, is_static) pairs of a list of arrays
NamesAndKinds(arrays) == [i \in 1..Len(arrays) |-> <<arrays[i].name, arrays[i].is_static>>]

\* C1: every constructed process has rank < size; the process that builds its
\* arrays as the data source (factory without empty=True, or the restart file) is
\* rank 0 and it is the only one: every other rank calls the factory with
\* empty=True and never loads the restart file, also when one is configured.
C1_OneDataSource ==
    /\ \A p \in Procs : pc[p] # "start" => rank[p] >= 0 /\ rank[p] < num_procs[p]
    /\ \A p \in Procs : HasCreated(p) =>
            IF rank[p] = 0
            THEN /\ ActedAsSource(p)
                 /\ ~InCalls(p, "particle_factory(empty=True)")
                 /\ InCalls(p, "load") <=> options.restart_file # None
            ELSE /\ calls[p][1] = "particle_factory(empty=True)"
                 /\ ~ActedAsSource(p)
    /\ Cardinality({p \in Procs : ActedAsSource(p)}) <= 1
    /\ (\A p \in Procs : HasCreated(p)) =>
            Cardinality({p \in Procs : ActedAsSource(p)}) = 1

C1_Witness ==
    /\ world > 1
    /\ options.restart_file # None
    /\ \A p \in Procs : HasCreated(p)
    /\ \E p \in Procs : rank[p] > 0 /\ InCalls(p, "particle_factory(empty=True)")
    /\ \E p \in Procs : rank[p] = 0 /\ InCalls(p, "load")

\* C3: after bootstrap the arrays of every rank > 0 have the names and the
\* is_static flags of the arrays of rank 0, in the same order, whether rank 0
\* built them with the factory or from a restart file.
C3_SameArraysOnEveryRank ==
    \A p, q \in Procs :
        (rank[q] = 0 /\ rank[p] > 0 /\ AfterBootstrap(p) /\ AfterBootstrap(q)) =>
            NamesAndKinds(particles[p]) = NamesAndKinds(particles[q])

\* C4: in a parallel run a process is in the step loop only when the initial
\* balance of the dynamic group, and of the static group where there is one,
\* has returned on every process, itself included.
C4_BalancedBeforeStepLoop ==
    \A p \in Procs :
        (pc[p] = "running" /\ num_procs[p] > 1) => \A q \in Procs : Balanced(q)

C4_Witness ==
    /\ world > 1
    /\ \E p \in Procs : pc[p] = "running" /\ pm_static[p].kind # "None"
    /\ \E q \in Procs : pc[q] = "bootstrapped"

\* C5: with size 1 bootstrap constructs no partition group and makes no
\* partitioning call (no update, no Zoltan parameter, no barrier), and the
\* solver is handed None for both parallel managers.
C5_SerialRunUnpartitioned ==
    \A p \in Procs :
        (pc[p] # "start" /\ num_procs[p] = 1) =>
            /\ \A i \in 1..Len(calls[p]) : ~IsPartitionCall(calls[p][i])
            /\ pm[p] = NoManager /\ pm_static[p] = NoManager
            /\ AfterBootstrap(p) =>
                    solver[p].pm = NoManager /\ solver[p].pm_static = NoManager

C5_Witness ==
    \E p \in Procs : num_procs[p] = 1 /\ Has_MPI /\ pc[p] = "running"
                     /\ Len(particles_static[p]) > 0

\* C10: in a run with size > 1 whose Zoltan backend is unavailable or
\* deselected, every process that ends does so with the error of bootstrap's
\* test of the backend; no partition group is constructed or balanced, no
\* parallel manager is set on the solver and no process gets past bootstrap.
C10_BootstrapRejectsMissingBackend ==
    (Has_MPI /\ world > 1 /\ (~Has_Zoltan \/ ~options.with_zoltan)) =>
        \A p \in Procs :
            /\ \A i \in 1..Len(calls[p]) : ~IsPartitionCall(calls[p][i])
            /\ pm[p] = NoManager /\ pm_static[p] = NoManager
            /\ solver[p].pm = UnsetManager /\ solver[p].pm_static = UnsetManager
            /\ ~AfterBootstrap(p)
            /\ pc[p] = "failed" =>
                    /\ HasCreated(p)
                    /\ error[p] \in {"RuntimeError", "ValueError"}


\* _create_particles has run its restart branch and setup has not yet bound
\* the options onto the solver
RestartedNotYetBound(p) ==
    /\ InCalls(p, "load")
    /\ pc[p] \in {"created", "dynamic_update", "static_update", "barrier", "bootstrapped"}

\* C2: on rank 0 of a restart with rescale factor r, from the load to the end
\* of bootstrap the solver's dt is the dump's dt times r, once, and its t and
\* count are the dump's; with r = 1 the solver's (t, dt, count) is the dump's.
C2_RestartRescalesDtOnce ==
    \A p \in Procs :
        RestartedNotYetBound(p) =>
            /\ rank[p] = 0
            /\ solver[p].dt = restart_data.solver_data.dt * options.rescale_dt
            /\ solver[p].t = restart_data.solver_data.t
            /\ solver[p].count = restart_data.solver_data.count
            /\ options.rescale_dt = 1 =>
                    [t |-> solver[p].t, dt |-> solver[p].dt, count |-> solver[p].count]
                        = restart_data.solver_data

C2_Witness ==
    \E p \in Procs :
        /\ pc[p] = "bootstrapped"
        /\ InCalls(p, "load")
        /\ world > 1
        /\ options.rescale_dt = 2
        /\ restart_data.solver_data.dt = 2
        /\ solver[p].dt = 4

\* the decimal value of a run of digits, most significant first
RECURSIVE Decimal(_)
Decimal(s) ==
    IF Len(s) = 0 THEN 0
    ELSE LET rest == Decimal(Tail(s))
             RECURSIVE Pow10(_)
             Pow10(k) == IF k = 0 THEN 1 ELSE 10 * Pow10(k - 1)
         IN  DigitVal(Head(s)) * Pow10(Len(s) - 1) + rest

\* the pool endpoint an address stands for, from its parts
EndpointOf(parts) ==
    [error |-> "", kind |-> "pool",
     authkey |-> IF parts.authkey = <<None>> THEN <<"p", "y", "s", "p", "h">>
                 ELSE parts.authkey,
     host |-> IF parts.host = <<None>> THEN <<"0", ".", "0", ".", "0", ".", "0">>
              ELSE parts.host,
     port |-> Decimal(parts.port),
     try_next_port |-> parts.search]

\* C6: every address [authkey@][host:]port[+] given as --multiproc is parsed
\* without error, and the pool interface gets the authkey before '@' (or the
\* default), the host before ':' (or 0.0.0.0), the port's decimal value and the
\* search flag of the trailing '+'.
C6_AddressParsing ==
    \A p \in Procs :
        /\ error[p] = ""
        /\ pc[p] = "ready" =>
                \A parts \in AddressParts :
                    Address(parts) = options.multiproc =>
                        interfaces[p] = <<EndpointOf(parts)>>

C6_Witness ==
    \E p \in Procs :
        /\ pc[p] = "ready"
        /\ options.multiproc = Secret \o <<"@">> \o Host \o <<":", "9", "0", "0", "0", "+">>
        /\ interfaces[p] = <<[error |-> "", kind |-> "pool", authkey |-> Secret,
                              host |-> Host, port |-> 9000, try_next_port |-> TRUE]>>

\* the kinds of interface the command line enables
Enabled ==
    {k \in {"console", "rpc", "pool"} :
        \/ k = "console" /\ options.cmd_line
        \/ k = "rpc" /\ options.xml_rpc # <<>>
        \/ k = "pool" /\ options.multiproc # <<>>}

\* C7: at the end of setup no interface is attached on a rank > 0, and on rank 0
\* exactly the enabled ones are, each once.
C7_InterfacesOnMasterOnly ==
    \A p \in Procs :
        pc[p] \in {"ready", "running"} =>
            /\ {interfaces[p][i].kind : i \in 1..Len(interfaces[p])}
                    = (IF rank[p] = 0 THEN Enabled ELSE {})
            /\ Len(interfaces[p]) = (IF rank[p] = 0 THEN Cardinality(Enabled) ELSE 0)

C7_Witness ==
    /\ Cardinality(Enabled) = 3
    /\ \E p, q \in Procs :
        /\ rank[p] = 0 /\ pc[p] = "ready" /\ Len(interfaces[p]) = 3
        /\ rank[q] > 0 /\ pc[q] = "ready" /\ Len(interfaces[q]) = 0

\* setup has put the options on the solver
AfterBind(p) ==
    \/ pc[p] \in {"bound", "ready", "running"}
    \/ pc[p] = "failed" /\ InCalls(p, "solver.setup")

\* C8: the solver's output name is the base name followed by '_' and the decimal
\* digits of the rank when size > 1, the base name itself when size = 1, and two
\* ranks of a parallel run never get the same name.
C8_OutputNamePerRank ==
    \A p \in Procs :
        AfterBind(p) =>
            LET name == solver[p].fname
                base == options.output
                tail == SubSeq(name, Len(base) + 2, Len(name))
            IN  /\ num_procs[p] = 1 => name = base
                /\ num_procs[p] > 1 =>
                        /\ Len(name) >= Len(base) + 2
                        /\ SubSeq(name, 1, Len(base)) = base
                        /\ name[Len(base) + 1] = "_"
                        /\ AllDigits(tail) /\ Decimal(tail) = rank[p]
                        /\ \A q \in Procs \ {p} :
                                AfterBind(q) => solver[q].fname # name

C8_Witness ==
    \E p, q \in Procs :
        /\ p # q /\ AfterBind(p) /\ AfterBind(q)
        /\ solver[p].fname = <<"s", "d", "_", "0">>
        /\ solver[q].fname = <<"s", "d", "_", "1">>

\* C9: after setup the solver's in_parallel flag is true exactly when size > 1,
\* whatever the flag was before setup.
C9_InParallelIffParallel ==
    \A p \in Procs : AfterBind(p) => (solver[p].in_parallel <=> num_procs[p] > 1)


\* Application.__init__ has returned on the process
Constructed(p) == pc[p] # "start" /\ error[p] # "NameError"

\* C11 as stated: after the constructor rank < size, size = 1 implies that the
\* communicator is None, and without MPI it is rank 0, size 1, no communicator.
C11_SizeOneHasNoCommunicator ==
    \A p \in Procs :
        Constructed(p) =>
            /\ rank[p] >= 0 /\ rank[p] < num_procs[p]
            /\ num_procs[p] = 1 => comm[p] = None
            /\ ~Has_MPI => rank[p] = 0 /\ num_procs[p] = 1 /\ comm[p] = None

\* C11: after the constructor rank < size; the communicator is None exactly
\* when there is no MPI, so that no communicator implies size 1 (a run of one
\* process under MPI has COMM_WORLD); without MPI it is rank 0, size 1, no
\* communicator.
C11_RankContext ==
    \A p \in Procs :
        Constructed(p) =>
            /\ rank[p] >= 0 /\ rank[p] < num_procs[p]
            /\ comm[p] = None <=> ~Has_MPI
            /\ comm[p] = None => num_procs[p] = 1
            /\ ~Has_MPI => rank[p] = 0 /\ num_procs[p] = 1 /\ comm[p] = None

C11_Witness ==
    \E p \in Procs :
        /\ Constructed(p)
        /\ Has_MPI
        /\ num_procs[p] = 1
        /\ rank[p] = 0
        /\ comm[p] = COMM_WORLD


\* C12: on rank 0 without a restart file bootstrap never completes with zero
\* arrays: a factory that returns an empty list makes it fail with an error.
C12_EmptyFactoryFailsBootstrap ==
    \A p \in Procs :
        (rank[p] = 0 /\ options.restart_file = None /\ InCalls(p, "particle_factory()")
         /\ AfterBootstrap(p)) =>
            Len(particles[p]) > 0

\* the partition group is constructed, balanced once and marked initialized
Initialized(group) ==
    /\ group.kind = "ZoltanParallelManagerGeometric"
    /\ group.updates = 1
    /\ group.initial_update = FALSE

\* C13: at the end of bootstrap in a run of size > 1 the dynamic group exists,
\* the static group exists exactly when there is a static array, and each group
\* that exists has had update called once and has initial_update = False.
C13_GroupsBalancedOnceAndMarked ==
    \A p \in Procs :
        (AfterBootstrap(p) /\ num_procs[p] > 1) =>
            /\ Initialized(pm[p])
            /\ pm_static[p] # NoManager <=> Len(particles_static[p]) > 0
            /\ pm_static[p] # NoManager => Initialized(pm_static[p])
            /\ Len(SelectSeq(calls[p], LAMBDA c : c = "pm.update")) = 1
            /\ Len(SelectSeq(calls[p], LAMBDA c : c = "pm_static.update"))
                    = (IF Len(particles_static[p]) > 0 THEN 1 ELSE 0)
            /\ Len(SelectSeq(calls[p], LAMBDA c : c \in {"pm.new", "pm_static.new"})) <= 2


\* the process is inside a collective call of bootstrap
InCollective(p) == pc[p] \in {"dynamic_update", "static_update", "barrier"}

\* the collective calls made so far by any two processes agree position by position
SameCollectives ==
    \A p, q \in Procs :
        \A k \in 1..Len(Collectives(p)) :
            k <= Len(Collectives(q)) => Collectives(q)[k] = Collectives(p)[k]

====
